---------------------------- MODULE Spec2Model ----------------------------
(* A model of the phone-book command line program (src/main.py): the      *)
(* contact store, the identifier counter, the CSV file at the fixed path, *)
(* and the six menu actions.                                              *)
EXTENDS Integers, Sequences, FiniteSets, TLC

VARIABLES
    contacts,       \* the dict id -> Contact, as the sequence of its items in insertion order
    next_id,        \* the identifier counter
    csv_file,       \* the file at `path`: NoFile, or its header and rows
    out,            \* what the last action printed
    last_action,    \* the menu entry chosen last
    pc,             \* where the running action stands ("menu": none is running)
    r,              \* action_import: the rows the reader has not yielded yet
    count,          \* action_import: the contacts imported so far
    any_row_error   \* action_import: whether a row was skipped

vars == <<contacts, next_id, csv_file, out, last_action, pc, r, count, any_row_error>>

-----------------------------------------------------------------------------
(* Bounds of the model. *)

\* Next hands out the identifiers below MaxId: a Create or an Import is taken
\* while it leaves next_id at MaxId or below.
MaxId == 3

\* The round trip starts from the stores of at most MaxStore identifiers.
MaxStore == 2

-----------------------------------------------------------------------------
(* Values. A Python value is a record: its type t and, for a str, its     *)
(* text s. TLC does not look inside a string, so Chars gives the          *)
(* characters of each text the model uses.                                *)

Str(s) == [t |-> "str", s |-> s]
NoneV == [t |-> "none", s |-> ""]
IntV == [t |-> "int", s |-> ""]

Chars(s) ==
    CASE s = "" -> <<>>
      [] s = "Ab" -> <<"A", "b">>
      [] s = "1" -> <<"1">>
      [] s = "a@B.c" -> <<"a", "@", "B", ".", "c">>
      [] s = "ab" -> <<"a", "b">>
      [] s = "AB" -> <<"A", "B">>
      [] s = "B.c" -> <<"B", ".", "c">>
      [] s = "x" -> <<"x">>

isinstance_str(x) == x.t = "str"
len(x) == Len(Chars(x.s))

\* str.lower(), on the characters the model uses.
LowerChar(ch) ==
    CASE ch = "A" -> "a"
      [] ch = "B" -> "b"
      [] ch = "C" -> "c"
      [] OTHER -> ch

\* x.lower(): the characters of the lower-cased text.
lower(x) == LET s == Chars(x.s) IN [i \in DOMAIN s |-> LowerChar(s[i])]

\* Python's `q in s` on the characters of two texts: q is a contiguous part of s.
in(q, s) ==
    \E i \in 0..(Len(s) - Len(q)) : SubSeq(s, i + 1, i + Len(q)) = q

\* validate_email(email) of the validate_email package, as the syntax check
\* the specification describes: local-part@domain, the domain holding a dot
\* inside it, and no whitespace.
validate_email(email) ==
    LET s == Chars(email.s)
        ats == {i \in DOMAIN s : s[i] = "@"}
    IN  /\ Cardinality(ats) = 1
        /\ \A i \in DOMAIN s : s[i] # " "
        /\ LET at == CHOOSE i \in ats : TRUE
           IN  /\ at > 1
               /\ \E d \in (at + 2)..(Len(s) - 1) : s[d] = "."
               /\ s[Len(s)] # "."
               /\ s[at + 1] # "."

-----------------------------------------------------------------------------
(* ContactValidationException: the cause strings.                         *)

NoErr == "ok"
not_str_x(x) == x \o " value is not a string"
not_str_name == not_str_x("name")
not_str_phone == not_str_x("phone")
not_str_email == not_str_x("email")
empty_x(x) == x \o " is empty"
empty_name == empty_x("name")
empty_phone == empty_x("phone")
malformed_email == "email is malformed"

\* Contact.__init__: the exception raised (NoErr when none is), and the
\* object constructed.
ContactNoPhoneCheck(name, phone, email) ==
    [err |-> IF ~isinstance_str(name) THEN not_str_name
             ELSE IF ~isinstance_str(phone) THEN not_str_phone
             ELSE IF ~isinstance_str(email) /\ email # NoneV THEN not_str_email
             ELSE IF len(name) = 0 THEN empty_name
             ELSE IF email # NoneV /\ len(email) > 0 /\ ~validate_email(email)
                  THEN malformed_email
             ELSE NoErr,
     c |-> [name |-> name, phone |-> phone, email |-> email]]

Contact(name, phone, email) ==
    [err |-> IF ~isinstance_str(name) THEN not_str_name
             ELSE IF ~isinstance_str(phone) THEN not_str_phone
             ELSE IF ~isinstance_str(email) /\ email # NoneV THEN not_str_email
             ELSE IF len(name) = 0 THEN empty_name
             ELSE IF len(phone) = 0 THEN empty_phone
             ELSE IF email # NoneV /\ len(email) > 0 /\ ~validate_email(email)
                  THEN malformed_email
             ELSE NoErr,
     c |-> [name |-> name, phone |-> phone, email |-> email]]

-----------------------------------------------------------------------------
(* The dict `contacts`: a sequence of items [id, c], in insertion order.  *)

Keys(d) == {d[i].id : i \in DOMAIN d}
KeyList(d) == [i \in DOMAIN d |-> d[i].id]
Get(d, k) == d[CHOOSE i \in DOMAIN d : d[i].id = k].c

\* d[k] = v: a present key keeps its place, a new key goes last.
DictSet(d, k, v) ==
    IF k \in Keys(d)
    THEN [i \in DOMAIN d |-> IF d[i].id = k THEN [id |-> k, c |-> v] ELSE d[i]]
    ELSE Append(d, [id |-> k, c |-> v])

\* del d[k]
DictDel(d, k) == SelectSeq(d, LAMBDA e : e.id # k)

-----------------------------------------------------------------------------
(* What an action prints. ids: the contacts listed; errs: the rows an     *)
(* import logged as skipped; count and any_row_error: an import's summary *)

Out(msg) ==
    [msg |-> msg, ids |-> <<>>, errs |-> <<>>, count |-> 0, any_row_error |-> FALSE]

\* listt(ids) prints contacts[idd] for each id given, in the order given.
listt(ids) == [i \in DOMAIN ids |-> ids[i]]

\* query(q): the ids of the contacts holding q, compared in lower case, in
\* the name, else in the phone, else in the email when there is one.
queryNoLower(q) ==
    LET Match(e) ==
            IF in(Chars(q.s), lower(e.c.name)) THEN TRUE
            ELSE IF in(Chars(q.s), lower(e.c.phone)) THEN TRUE
            ELSE e.c.email # NoneV /\ in(Chars(q.s), lower(e.c.email))
    IN  KeyList(SelectSeq(contacts, Match))

query(q) ==
    LET ql == lower(q)
        Match(e) ==
            IF in(ql, lower(e.c.name)) THEN TRUE
            ELSE IF in(ql, lower(e.c.phone)) THEN TRUE
            ELSE e.c.email # NoneV /\ in(ql, lower(e.c.email))
    IN  KeyList(SelectSeq(contacts, Match))

-----------------------------------------------------------------------------
(* The CSV file: its header and its rows, each a sequence of fields, each *)
(* field a text.                                                          *)

NoFile == [exists |-> FALSE, header |-> <<>>, rows |-> <<>>]
File(header, rows) == [exists |-> TRUE, header |-> header, rows |-> rows]

fieldnames == <<"name", "phone", "email">>

\* The csv writer writes None as the empty field and a str as it is.
CsvField(v) == IF v = NoneV THEN "" ELSE v.s

WriteRowNoEmail(c) == <<CsvField(c.name), CsvField(c.phone)>>

\* DictWriter.writerow(vars(contact)): the fields in the order of fieldnames.
WriteRow(c) == <<CsvField(c.name), CsvField(c.phone), CsvField(c.email)>>

\* writeheader(), then writerows() over contacts.keys().
WriteCsv(d) == File(fieldnames, [i \in DOMAIN d |-> WriteRow(d[i].c)])

\* DictReader: the first row gives the keys; a row without fields is skipped.
ReaderRows(f) == SelectSeq(f.rows, LAMBDA row : row # <<>>)

\* row.get(key) of a DictReader row: the field under the header's key, None
\* when the header has no such key or the row is too short to reach it.
RowGet(header, row, key) ==
    LET at == {i \in DOMAIN header : header[i] = key}
    IN  IF at = {} THEN NoneV
        ELSE LET i == CHOOSE j \in at : TRUE
             IN  IF i <= Len(row) THEN Str(row[i]) ELSE NoneV

\* The body of action_import's inner try for one row: the exception raised
\* (NoErr when none is) and the Contact to store.
ImportRowNoValidation(header, row) ==
    LET name == RowGet(header, row, "name")
        phone == RowGet(header, row, "phone")
        email == RowGet(header, row, "email")
    IN  [err |-> IF name = NoneV THEN empty_name
                 ELSE IF phone = NoneV THEN empty_phone
                 ELSE NoErr,
         c |-> [name |-> name, phone |-> phone, email |-> email]]

ImportRow(header, row) ==
    LET name == RowGet(header, row, "name")
        phone == RowGet(header, row, "phone")
        email == RowGet(header, row, "email")
    IN  IF name = NoneV THEN [err |-> empty_name, c |-> <<>>]
        ELSE IF phone = NoneV THEN [err |-> empty_phone, c |-> <<>>]
        ELSE Contact(name, phone, email)

\* One pass of the for loop of action_import over the state st of the
\* import: the row is stored under next_id and counted, or logged and skipped.
ImportStepAbort(st, header, row, row_i) ==
    LET res == ImportRow(header, row)
    IN  IF st.any_row_error THEN st
        ELSE IF res.err = NoErr
        THEN [st EXCEPT !.contacts = DictSet(@, st.next_id, res.c),
                        !.next_id = @ + 1,
                        !.count = @ + 1]
        ELSE [st EXCEPT !.errs = Append(@, [row_i |-> row_i, err |-> res.err]),
                        !.any_row_error = TRUE]

ImportStepNoBump(st, header, row, row_i) ==
    LET res == ImportRow(header, row)
    IN  IF res.err = NoErr
        THEN [st EXCEPT !.contacts = DictSet(@, st.next_id, res.c),
                        !.count = @ + 1]
        ELSE [st EXCEPT !.errs = Append(@, [row_i |-> row_i, err |-> res.err]),
                        !.any_row_error = TRUE]

ImportStep(st, header, row, row_i) ==
    LET res == ImportRow(header, row)
    IN  IF res.err = NoErr
        THEN [st EXCEPT !.contacts = DictSet(@, st.next_id, res.c),
                        !.next_id = @ + 1,
                        !.count = @ + 1]
        ELSE [st EXCEPT !.errs = Append(@, [row_i |-> row_i, err |-> res.err]),
                        !.any_row_error = TRUE]

\* The whole for loop: the rows from row_i on.
RECURSIVE ImportLoop(_, _, _, _)
ImportLoop(st, header, rows, row_i) ==
    IF row_i > Len(rows) THEN st
    ELSE ImportLoop(ImportStep(st, header, rows[row_i], row_i - 1),
                    header, rows, row_i + 1)

-----------------------------------------------------------------------------
(* The values the prompts and the user's CSV files are drawn from. None   *)
(* and IntV are the answers that are no text: they meet Contact's type    *)
(* checks.                                                                *)

NameVals == {Str("Ab"), Str(""), NoneV}
PhoneVals == {Str("1"), Str(""), NoneV}
EmailVals == {Str("a@B.c"), Str(""), Str("ab"), NoneV, IntV}
Queries == {Str("AB"), Str("1"), Str("B.c"), Str("x"), Str(""), NoneV}
Confirms == {"yes", "no", "none"}

\* Rows of a user's file: complete, without the email column, with an empty
\* phone, with a malformed email, and with an empty name as its only field.
RowFull == <<"Ab", "1", "a@B.c">>
RowNoEmail == <<"Ab", "1">>
RowEmptyPhone == <<"Ab", "", "a@B.c">>
RowBadMail == <<"Ab", "1", "ab">>
RowEmptyName == <<"">>

\* The files a user puts at `path`; the first holds a blank line before its
\* rows, the last has no name column.
UserFiles ==
    {File(fieldnames, << <<>>, RowEmptyPhone, RowNoEmail>>),
     File(fieldnames, <<RowBadMail, RowFull>>),
     File(fieldnames, <<RowEmptyName>>),
     File(<<"phone", "email">>, <<<<"1", "a@B.c">>>>)}

-----------------------------------------------------------------------------
(* The state after the module is loaded.                                  *)

NoId == -1

Init ==
    /\ contacts = <<>>
    /\ next_id = 0
    /\ csv_file = NoFile
    /\ out = Out("")
    /\ last_action = "List"
    /\ pc = "menu"
    /\ r = <<>>
    /\ count = 0
    /\ any_row_error = FALSE

locals == <<pc, r, count, any_row_error>>

-----------------------------------------------------------------------------
(* The menu actions, each run to its end.                                 *)

\* action_create keyed by the number of contacts held, not by next_id.
action_createByLen(name, phone, email) ==
    /\ pc = "menu"
    /\ \E res \in {Contact(name, phone, email)} :
          IF res.err = NoErr
          THEN /\ contacts' = DictSet(contacts, Len(contacts), res.c)
               /\ next_id' = next_id + 1
               /\ out' = Out("Created!")
          ELSE /\ out' = [Out("Error") EXCEPT !.errs = <<res.err>>]
               /\ UNCHANGED <<contacts, next_id>>
    /\ last_action' = "Create"
    /\ UNCHANGED <<csv_file, locals>>

action_create(name, phone, email) ==
    /\ pc = "menu"
    /\ \E res \in {Contact(name, phone, email)} :
          IF res.err = NoErr
          THEN /\ contacts' = DictSet(contacts, next_id, res.c)
               /\ next_id' = next_id + 1
               /\ out' = Out("Created!")
          ELSE /\ out' = [Out("Error") EXCEPT !.errs = <<res.err>>]
               /\ UNCHANGED <<contacts, next_id>>
    /\ last_action' = "Create"
    /\ UNCHANGED <<csv_file, locals>>

action_list ==
    /\ pc = "menu"
    /\ out' = IF Len(contacts) = 0 THEN Out("Empty")
              ELSE [Out("") EXCEPT !.ids = listt(KeyList(contacts))]
    /\ last_action' = "List"
    /\ UNCHANGED <<contacts, next_id, csv_file, locals>>

\* The ids a non-empty query q gives to action_delete and action_search.
Matches(q) == IF q # NoneV /\ len(q) > 0 THEN query(q) ELSE <<>>

action_search(q) ==
    /\ pc = "menu"
    /\ \E ids \in {Matches(q)} :
          out' = IF q # NoneV /\ len(q) > 0
                 THEN IF Len(ids) > 0 THEN [Out("") EXCEPT !.ids = listt(ids)]
                      ELSE Out("Found no matches")
                 ELSE Out("Empty query")
    /\ last_action' = "Search"
    /\ UNCHANGED <<contacts, next_id, csv_file, locals>>

\* The answers action_delete can get once the query gave ids. choice: the
\* answer to "Select one to delete", asked when several match (NoId when it
\* is not asked); y: the answer to "Are you sure" ("none" when it is not
\* asked, or left unanswered).
Choices(ids) == IF Len(ids) > 1 THEN {ids[i] : i \in DOMAIN ids} ELSE {NoId}
Answers(ids) == IF Len(ids) > 0 THEN Confirms ELSE {"none"}

\* delete_ids deleting the first match whatever was selected.
delete_idsFirst(q, ids, choice, y) ==
    /\ pc = "menu"
    /\ choice \in Choices(ids)
    /\ y \in Answers(ids)
    /\ IF q # NoneV /\ len(q) > 0
       THEN \E to_delete_id \in {IF Len(ids) > 0 THEN ids[1] ELSE NoId} :
               IF to_delete_id # NoId
               THEN IF y = "yes"
                    THEN /\ contacts' = DictDel(contacts, to_delete_id)
                         /\ out' = Out("Deleted!")
                    ELSE /\ out' = Out("Deletion cancelled.")
                         /\ UNCHANGED contacts
               ELSE /\ out' = Out("Found no matches")
                    /\ UNCHANGED contacts
       ELSE /\ out' = Out("Empty query")
            /\ UNCHANGED contacts
    /\ last_action' = "Delete"
    /\ UNCHANGED <<next_id, csv_file, locals>>

\* action_delete once the query q was read and, when it is not empty, ids is
\* what query(q) returned. The id deleted is a key of the store, as query
\* returned it.
delete_ids(q, ids, choice, y) ==
    /\ pc = "menu"
    /\ choice \in Choices(ids)
    /\ y \in Answers(ids)
    /\ IF q # NoneV /\ len(q) > 0
       THEN \E to_delete_id \in {IF Len(ids) = 1 THEN ids[1]
                                 ELSE IF Len(ids) > 0 THEN choice
                                 ELSE NoId} :
               IF to_delete_id # NoId
               THEN IF y = "yes"
                    THEN /\ contacts' = DictDel(contacts, to_delete_id)
                         /\ out' = Out("Deleted!")
                    ELSE /\ out' = Out("Deletion cancelled.")
                         /\ UNCHANGED contacts
               ELSE /\ out' = Out("Found no matches")
                    /\ UNCHANGED contacts
       ELSE /\ out' = Out("Empty query")
            /\ UNCHANGED contacts
    /\ last_action' = "Delete"
    /\ UNCHANGED <<next_id, csv_file, locals>>

action_delete(q, choice, y) == delete_ids(q, Matches(q), choice, y)

action_export ==
    /\ pc = "menu"
    /\ csv_file' = WriteCsv(contacts)
    /\ out' = IF Len(contacts) = 0 THEN Out("Exported (although empty)")
              ELSE Out("Exported!")
    /\ last_action' = "Export CSV"
    /\ UNCHANGED <<contacts, next_id, locals>>

\* The summary printed after the loop.
ImportSummary(st) ==
    [msg |-> IF st.count > 0 THEN "Imported" ELSE "Imported nothing",
     ids |-> <<>>, errs |-> st.errs, count |-> st.count,
     any_row_error |-> st.any_row_error]

action_import ==
    /\ pc = "menu"
    /\ IF csv_file.exists
       THEN \E rows \in {ReaderRows(csv_file)} :
              \E st \in {ImportLoop([contacts |-> contacts, next_id |-> next_id,
                                         count |-> 0, any_row_error |-> FALSE,
                                         errs |-> <<>>],
                                        csv_file.header, rows, 1)} :
                 /\ contacts' = st.contacts
                 /\ next_id' = st.next_id
                 /\ out' = ImportSummary(st)
       ELSE /\ out' = Out("file not found")
            /\ UNCHANGED <<contacts, next_id>>
    /\ last_action' = "Import CSV"
    /\ UNCHANGED <<csv_file, locals>>

\* The user puts a CSV file of their own at `path`.
put_csv_file(f) ==
    /\ pc = "menu"
    /\ csv_file' = f
    /\ UNCHANGED <<contacts, next_id, out, last_action, locals>>

\* The Import at hand stays within the identifiers of the model.
ImportFits == next_id + Len(ReaderRows(csv_file)) <= MaxId

Next ==
    \/ \E name \in NameVals, phone \in PhoneVals, email \in EmailVals :
          next_id < MaxId /\ action_create(name, phone, email)
    \/ action_list
    \/ \E q \in Queries : action_search(q)
    \/ \E q \in Queries :
          \E choice \in Choices(Matches(q)), y \in Answers(Matches(q)) :
             action_delete(q, choice, y)
    \/ action_export
    \/ ImportFits /\ action_import
    \/ \E f \in UserFiles : put_csv_file(f)

Spec == Init /\ [][Next]_vars

-----------------------------------------------------------------------------
(* Export and Import from any store Spec can build on at most MaxStore    *)
(* identifiers: each identifier below next_id deleted, or holding a       *)
(* contact that passed validation.                                        *)

ValidContacts ==
    {[name |-> Str("Ab"), phone |-> Str("1"), email |-> email] :
        email \in {NoneV, Str(""), Str("a@B.c")}}

RECURSIVE Stores(_)
Stores(n) ==
    IF n = 0 THEN {<<>>}
    ELSE LET prev == Stores(n - 1)
         IN  prev \cup {Append(s, [id |-> n - 1, c |-> c]) : s \in prev, c \in ValidContacts}

InitRoundTrip ==
    /\ next_id \in 0..MaxStore
    /\ contacts \in Stores(next_id)
    /\ csv_file = NoFile
    /\ out = Out("")
    /\ last_action = "List"
    /\ pc = "menu"
    /\ r = <<>>
    /\ count = 0
    /\ any_row_error = FALSE

\* An Import is taken while it leaves next_id at twice MaxStore or below.
NextRoundTrip ==
    \/ action_export
    \/ next_id + Len(ReaderRows(csv_file)) <= MaxStore + MaxStore /\ action_import

SpecRoundTrip == InitRoundTrip /\ [][NextRoundTrip]_vars

-----------------------------------------------------------------------------
(* The same actions statement by statement, for the interrupt signal: a   *)
(* KeyboardInterrupt is raised between two statements of the running      *)
(* action, and the main menu loop catches it.                             *)

MenuActions == {"List", "Search", "Create", "Delete", "Export CSV", "Import CSV"}

\* action_create up to `contacts[next_id] = Contact(...)`.
create_store(name, phone, email) ==
    /\ pc = "menu"
    /\ \E res \in {Contact(name, phone, email)} :
          IF res.err = NoErr
          THEN /\ contacts' = DictSet(contacts, next_id, res.c)
               /\ pc' = "create_bump"
               /\ out' = Out("")
               /\ UNCHANGED last_action
          ELSE /\ out' = [Out("Error") EXCEPT !.errs = <<res.err>>]
               /\ last_action' = "Create"
               /\ UNCHANGED <<contacts, pc>>
    /\ UNCHANGED <<next_id, csv_file, r, count, any_row_error>>

\* action_create from `next_id += 1` on.
create_bump ==
    /\ pc = "create_bump"
    /\ next_id' = next_id + 1
    /\ out' = Out("Created!")
    /\ pc' = "menu"
    /\ last_action' = "Create"
    /\ UNCHANGED <<contacts, csv_file, r, count, any_row_error>>

\* action_import up to the for loop.
import_open ==
    /\ pc = "menu"
    /\ IF csv_file.exists
       THEN \E rows \in {ReaderRows(csv_file)} :
              /\ r' = rows
              /\ pc' = "import_loop"
              /\ out' = Out("")
              /\ UNCHANGED last_action
       ELSE /\ out' = Out("file not found")
            /\ last_action' = "Import CSV"
            /\ UNCHANGED <<r, pc>>
    /\ UNCHANGED <<contacts, next_id, csv_file, count, any_row_error>>

\* One row of the loop up to `contacts[next_id] = Contact(...)`, or to the
\* except clause.
import_row ==
    /\ pc = "import_loop"
    /\ r # <<>>
    /\ \E res \in {ImportRow(csv_file.header, Head(r))} :
          IF res.err = NoErr
          THEN /\ contacts' = DictSet(contacts, next_id, res.c)
               /\ pc' = "import_bump"
               /\ UNCHANGED <<out, any_row_error>>
          ELSE /\ out' = [out EXCEPT !.errs =
                            Append(@, [row_i |-> Len(ReaderRows(csv_file)) - Len(r),
                                       err |-> res.err])]
               /\ any_row_error' = TRUE
               /\ UNCHANGED <<contacts, pc>>
    /\ r' = Tail(r)
    /\ UNCHANGED <<next_id, csv_file, last_action, count>>

\* `next_id += 1` and `count += 1` of the row just stored.
import_bump ==
    /\ pc = "import_bump"
    /\ next_id' = next_id + 1
    /\ count' = count + 1
    /\ pc' = "import_loop"
    /\ UNCHANGED <<contacts, csv_file, out, last_action, r, any_row_error>>

\* After the loop: the summary.
import_finish ==
    /\ pc = "import_loop"
    /\ r = <<>>
    /\ out' = ImportSummary([count |-> count, any_row_error |-> any_row_error,
                             errs |-> out.errs])
    /\ pc' = "menu"
    /\ last_action' = "Import CSV"
    /\ count' = 0
    /\ any_row_error' = FALSE
    /\ UNCHANGED <<contacts, next_id, csv_file, r>>

\* KeyboardInterrupt in the running action: in the action's prompts or
\* before its first statement when pc = "menu", else where pc stands.
interrupt(action) ==
    /\ pc = "create_bump" => action = "Create"
    /\ pc \in {"import_loop", "import_bump"} => action = "Import CSV"
    /\ out' = Out("Interrupted the current action")
    /\ last_action' = action
    /\ pc' = "menu"
    /\ r' = <<>>
    /\ count' = 0
    /\ any_row_error' = FALSE
    /\ UNCHANGED <<contacts, next_id, csv_file>>

\* The answers and files tried under interruption.
IntPhoneVals == {Str("1"), Str("")}
IntEmailVals == {Str("a@B.c"), NoneV}
IntQueries == {Str("AB"), Str("B.c")}
IntFiles == {File(fieldnames, <<RowBadMail, RowFull>>)}

NextInt ==
    \/ \E phone \in IntPhoneVals, email \in IntEmailVals :
          next_id < MaxId /\ create_store(Str("Ab"), phone, email)
    \/ create_bump
    \/ action_list
    \/ \E q \in IntQueries : action_search(q)
    \/ \E q \in IntQueries :
          \E choice \in Choices(Matches(q)), y \in Answers(Matches(q)) :
             action_delete(q, choice, y)
    \/ action_export
    \/ ImportFits /\ import_open
    \/ import_row
    \/ import_bump
    \/ import_finish
    \/ \E action \in MenuActions : interrupt(action)
    \/ \E f \in IntFiles : put_csv_file(f)

SpecInt == Init /\ [][NextInt]_vars

-----------------------------------------------------------------------------
(* The claims.                                                            *)

\* The contacts a step added.
NewKeys == Keys(contacts') \ Keys(contacts)

\* C1: next_id grows by exactly one for every contact created (by Create or
\* by an imported row) and by nothing else; a new contact's key is at least
\* the old next_id; every key of the store is below next_id and held once.
C1_Step ==
    /\ next_id' = next_id + Cardinality(NewKeys)
    /\ Len(contacts') >= Len(contacts) => Len(contacts') = Len(contacts) + Cardinality(NewKeys)
    /\ \A k \in NewKeys : next_id <= k /\ k < next_id'
    /\ (last_action' = "Create" /\ next_id' # next_id) =>
          /\ next_id' = next_id + 1
          /\ out'.msg = "Created!"
    /\ (last_action' = "Import CSV" /\ next_id' # next_id) =>
          next_id' = next_id + out'.count
    /\ last_action' \in {"Delete", "List", "Search", "Export CSV"} => next_id' = next_id

C1_NextIdCounts ==
    /\ [](/\ \A k \in Keys(contacts) : k < next_id
          /\ Cardinality(Keys(contacts)) = Len(contacts))
    /\ [][C1_Step]_vars

\* C1's case: an identifier was deleted and a contact was created after it.
C1_Witness ==
    /\ out.msg = "Created!"
    /\ \E k \in 0..(next_id - 1) : k \notin Keys(contacts)
    /\ next_id - 1 \in Keys(contacts)

\* The email-syntax condition of a stored contact.
EmailOk(email) == email = NoneV \/ (email.t = "str" /\ (email.s = "" \/ validate_email(email)))

\* C2: every contact in the store has a non-empty text name and phone, and
\* an email that is None, empty or syntactically valid.
C2_StoredContactsValid ==
    \A i \in DOMAIN contacts :
        /\ contacts[i].c.name.t = "str" /\ contacts[i].c.name.s # ""
        /\ contacts[i].c.phone.t = "str" /\ contacts[i].c.phone.s # ""
        /\ EmailOk(contacts[i].c.email)

\* C2's case: the store holds a contact without an email, one with an empty
\* email and one with a valid email, after an import.
C2_Witness ==
    /\ last_action = "Import CSV"
    /\ out.count > 0
    /\ \E i, j, k \in DOMAIN contacts :
          /\ contacts[i].c.email = NoneV
          /\ contacts[j].c.email = Str("")
          /\ contacts[k].c.email = Str("a@B.c")

\* The values Create's validation refuses.
Refused(name, phone, email) ==
    \/ name.t # "str" \/ phone.t # "str" \/ email.t \notin {"str", "none"}
    \/ name.s = "" \/ phone.s = ""
    \/ (email.t = "str" /\ email.s # "" /\ ~validate_email(email))

\* C3: a Create given values that fail validation reports the error and
\* leaves the store and next_id as they were: a step either leaves them and
\* reports one error, or is no Create of refused values.
C3_FailedCreateNoMutation ==
    [][last_action' = "Create" =>
          \/ /\ contacts' = contacts
             /\ next_id' = next_id
             /\ out'.msg = "Error"
             /\ Len(out'.errs) = 1
          \/ \A name \in NameVals, phone \in PhoneVals, email \in EmailVals :
                ~(Refused(name, phone, email) /\ action_create(name, phone, email))]_vars

\* C3's case: a Create was refused while the store held contacts.
C3_Witness ==
    /\ last_action = "Create"
    /\ out.msg = "Error"
    /\ Len(contacts) >= 2

\* The error of the earliest failing check, in the order: type of name, of
\* phone, of email, empty name, empty phone, syntax of email.
FirstFailing(name, phone, email) ==
    IF name.t # "str" THEN not_str_name
    ELSE IF phone.t # "str" THEN not_str_phone
    ELSE IF email.t \notin {"str", "none"} THEN not_str_email
    ELSE IF name.s = "" THEN empty_name
    ELSE IF phone.s = "" THEN empty_phone
    ELSE IF email.t = "str" /\ email.s # "" /\ ~validate_email(email) THEN malformed_email
    ELSE NoErr

\* A missing column value of an import row counts as the empty text.
AsEmpty(v) == IF v = NoneV THEN Str("") ELSE v

RowFirstFailing(header, row) ==
    FirstFailing(AsEmpty(RowGet(header, row, "name")),
                 AsEmpty(RowGet(header, row, "phone")),
                 RowGet(header, row, "email"))

\* The lines an import logs when each failing row reports its earliest
\* failing check: the rows from i on.
RECURSIVE ExpectedErrs(_, _, _)
ExpectedErrs(header, rows, i) ==
    IF i > Len(rows) THEN <<>>
    ELSE LET err == RowFirstFailing(header, rows[i])
         IN  (IF err = NoErr THEN <<>> ELSE <<[row_i |-> i - 1, err |-> err]>>)
             \o ExpectedErrs(header, rows, i + 1)

\* C4: a construction attempt reports exactly the error of the earliest
\* failing check in the fixed order, in a Create and for each row of an
\* Import, where a missing name or phone counts as the empty field.
C4_EarliestCheckReported ==
    [][/\ last_action' = "Create" =>
             \A name \in NameVals, phone \in PhoneVals, email \in EmailVals :
                action_create(name, phone, email) =>
                   out'.errs = (IF FirstFailing(name, phone, email) = NoErr THEN <<>>
                                ELSE <<FirstFailing(name, phone, email)>>)
       /\ (last_action' = "Import CSV" /\ csv_file.exists /\ action_import) =>
             out'.errs = ExpectedErrs(csv_file.header, ReaderRows(csv_file), 1)]_vars

\* Whether the lower-cased q is part of the lower-cased name, phone or
\* email (when there is one) of contact c.
Holds(q, c) ==
    \/ in(lower(q), lower(c.name))
    \/ in(lower(q), lower(c.phone))
    \/ (c.email # NoneV /\ in(lower(q), lower(c.email)))

\* The place of key k in the store's insertion order.
Place(k) == CHOOSE i \in DOMAIN contacts : contacts[i].id = k

QueryExact(q) ==
    LET ids == query(q)
    IN  /\ {ids[i] : i \in DOMAIN ids} =
              {contacts[i].id : i \in {j \in DOMAIN contacts : Holds(q, contacts[j].c)}}
        /\ \A i, j \in DOMAIN ids : i < j => Place(ids[i]) < Place(ids[j])

\* C5: for a non-empty q, query(q) lists exactly the contacts holding q in
\* name, phone or email, case-insensitively, each once, in insertion order;
\* a Search, which runs query, leaves the store and next_id unchanged.
C5_QueryExact ==
    /\ [](\A q \in Queries : (q # NoneV /\ q.s # "") => QueryExact(q))
    /\ [][\/ contacts' = contacts /\ next_id' = next_id
          \/ \A q \in Queries : ~action_search(q)]_vars

\* C5's case: the store holds a query's matches, several of them, after
\* its first contact, which does not match, and a Search listed them.
C5_Witness ==
    /\ last_action = "Search"
    /\ Len(out.ids) >= 2
    /\ Len(out.ids) < Len(contacts)
    /\ out.ids[1] # contacts[1].id
    /\ out.ids = query(Str("B.c"))

\* An Import of the file Export wrote from the present store adds exactly
\* one contact per stored contact, in order, under the next identifiers,
\* with the fields Read gives for the original's.
RoundTrip(Read(_)) ==
    (csv_file = WriteCsv(contacts) /\ action_import) =>
        LET N == Len(contacts)
        IN  /\ Len(contacts') = N + N
            /\ out'.count = N
            /\ next_id' = next_id + N
            /\ \A i \in 1..N :
                  /\ contacts'[i] = contacts[i]
                  /\ contacts'[N + i].id = next_id + i - 1
                  /\ contacts'[N + i].c = Read(contacts[i].c)

SameContact(c) == c
EmptyForAbsent(c) == [c EXCEPT !.email = IF @ = NoneV THEN Str("") ELSE @]

\* C6 as stated: the imported contacts' fields equal the originals'.
C6_RoundTripEqual == [][RoundTrip(SameContact)]_vars

\* C6 amended: the imported contacts' fields equal the originals', except
\* that an absent email (None) comes back as the empty text.
C6_RoundTripAbsentEmailEmpty == [][RoundTrip(EmptyForAbsent)]_vars

\* C6's case: two contacts, the first without an email, were exported and
\* imported back after them.
C6_Witness ==
    /\ last_action = "Import CSV"
    /\ out.count = 2
    /\ Len(contacts) = 4
    /\ csv_file = WriteCsv(SubSeq(contacts, 1, 2))
    /\ contacts[1].c.email = NoneV
    /\ contacts[2].c.email = Str("a@B.c")
    /\ contacts[3].c.email = Str("")
    /\ contacts[4].c = contacts[2].c

\* Whether a row passes validation: name and phone present and not empty,
\* the email absent, empty or valid.
RowPasses(header, row) ==
    /\ RowGet(header, row, "name") # NoneV /\ RowGet(header, row, "name").s # ""
    /\ RowGet(header, row, "phone") # NoneV /\ RowGet(header, row, "phone").s # ""
    /\ EmailOk(RowGet(header, row, "email"))

\* The j-th member of the set S of numbers.
Nth(S, j) == CHOOSE i \in S : Cardinality({k \in S : k < i}) = j - 1

\* C7: an Import appends one contact for each row that passes validation,
\* in the rows' order and under consecutive identifiers, whatever rows fail
\* before or after it; the count reported is the number of those rows, and
\* any_row_error is true exactly when some row was skipped.
C7_ImportRowByRow ==
    [][(last_action' = "Import CSV" /\ csv_file.exists /\ action_import) =>
          LET rows == ReaderRows(csv_file)
              good == {i \in DOMAIN rows : RowPasses(csv_file.header, rows[i])}
              n == Len(contacts)
          IN  /\ out'.count = Cardinality(good)
              /\ Len(contacts') = n + Cardinality(good)
              /\ out'.any_row_error = (good # DOMAIN rows)
              /\ Len(out'.errs) = Len(rows) - Cardinality(good)
              /\ \A i \in 1..n : contacts'[i] = contacts[i]
              /\ \A j \in 1..Cardinality(good) :
                    /\ contacts'[n + j].id = next_id + j - 1
                    /\ contacts'[n + j].c =
                          [name |-> RowGet(csv_file.header, rows[Nth(good, j)], "name"),
                           phone |-> RowGet(csv_file.header, rows[Nth(good, j)], "phone"),
                           email |-> RowGet(csv_file.header, rows[Nth(good, j)], "email")]]_vars

\* C7's case: after a blank line, the first row was skipped for its empty
\* phone and the second row was imported.
C7_Witness ==
    /\ last_action = "Import CSV"
    /\ csv_file = File(fieldnames, << <<>>, RowEmptyPhone, RowNoEmail>>)
    /\ out.count = 1
    /\ out.any_row_error
    /\ out.errs = <<[row_i |-> 0, err |-> empty_phone]>>
    /\ contacts # <<>>
    /\ contacts[Len(contacts)].c.email = NoneV

\* The identifiers handed out so far that the store does not hold.
Gone == {k \in 0..(next_id - 1) : k \notin Keys(contacts)}

\* C8: a deleted identifier is no key of the store after the deletion and
\* in every later state; no query returns it, so no List or Search shows it
\* and no Delete can reach it a second time.
C8_DeletedStaysGone ==
    /\ [][/\ \A k \in Gone : k \notin Keys(contacts')
          /\ last_action' = "Delete" =>
                \A k \in Keys(contacts) \ Keys(contacts') :
                   /\ out'.msg = "Deleted!"
                   /\ k < next_id'
          /\ \A i \in DOMAIN out'.ids : out'.ids[i] \in Keys(contacts')]_vars
    /\ [](\A q \in Queries :
             LET ids == Matches(q)
             IN  /\ \A i \in DOMAIN ids : ids[i] \in Keys(contacts) /\ ids[i] \notin Gone
                 /\ Choices(ids) \cap Gone = {})

\* C8's case: a contact was created, and one was listed, after an
\* identifier was deleted.
C8_Witness ==
    /\ Gone # {}
    /\ last_action = "List"
    /\ out.ids # <<>>
    /\ \E k \in Gone : \E j \in Keys(contacts) : j > k

\* C9: after an interrupted action the store and next_id are as before the
\* action or as after its whole mutation (after each whole row, for an
\* Import): no contact is stored under an identifier that next_id has not
\* passed.
C9_InterruptLeavesNoPartialCreate ==
    pc = "menu" => \A k \in Keys(contacts) : k < next_id

\* The store after the step is the store before it without key k, the
\* other entries as they were and in their order.
Removed(k) ==
    /\ Keys(contacts') = Keys(contacts) \ {k}
    /\ Len(contacts') = Len(contacts) - 1
    /\ \A i \in DOMAIN contacts :
          contacts[i].id # k =>
             \E j \in {i, i - 1} \cap DOMAIN contacts' : contacts'[j] = contacts[i]

\* The step left the store as it was and reported no deletion.
Kept == contacts' = contacts /\ out'.msg # "Deleted!"

\* C10: a Delete removes a contact only for a non-empty query with a match
\* and the answer yes; it then removes exactly the single match, or the
\* match selected, and leaves the other entries and next_id unchanged; in
\* every other case the store and next_id are unchanged. A step that kept
\* the store is no Delete answered yes on a match; a step that did not is a
\* Delete only of that kind, and removed the match it was given.
C10_DeleteFrame ==
    [][last_action' = "Delete" =>
          /\ next_id' = next_id
          /\ \A q \in Queries :
                \A ids \in {Matches(q)} :
                   \A choice \in Choices(ids) :
                      IF Kept
                      THEN ids # <<>> => ~delete_ids(q, ids, choice, "yes")
                      ELSE \A y \in Answers(ids) :
                              delete_ids(q, ids, choice, y) =>
                                 /\ q # NoneV /\ q.s # "" /\ ids # <<>> /\ y = "yes"
                                 /\ \E k \in {ids[i] : i \in DOMAIN ids} :
                                       /\ Len(ids) = 1 \/ k = choice
                                       /\ Removed(k)
                                 /\ out'.msg = "Deleted!"]_vars

\* C10's case: of three contacts that all match a query, the middle one was
\* selected and deleted.
C10_Witness ==
    /\ last_action = "Delete"
    /\ out.msg = "Deleted!"
    /\ Keys(contacts) = {0, 2}
    /\ next_id = 3
    /\ Len(query(Str("AB"))) = 2
    /\ contacts[1].c.email = contacts[2].c.email

=============================================================================
